---- MODULE Spec2Model ----
(***************************************************************************)
(* Model of auto-fast-dl (src/src/main.rs): the Downloader's start() loop, *)
(* the per-item download_file() state machine, the Mutex-guarded           *)
(* DownloadStats and the download directory.                               *)
(*                                                                         *)
(* Sizes are byte counts; the f64 "MB" values of the source are the byte   *)
(* counts divided by MB, so every f64 comparison of the source is modelled *)
(* by the same comparison multiplied through by MB (f64 rounding is not    *)
(* modelled).  Utc::now() is the wall clock: each reading returns any of   *)
(* the seconds 0..clock_max, earlier readings putting no bound on later    *)
(* ones.  The readings reach nothing but the throughput report, so the     *)
(* runs with a clock that moves are the runs that request a single item;   *)
(* in the other runs every reading returns the same second.                *)
(***************************************************************************)
EXTENDS Integers, Sequences, FiniteSets, TLC

\* ---------------------------------------------------------------- bounds
MaxRequested == 2      \* largest requested batch size (source default: 20)
MaxTicks == 1          \* ticks of the loop that the model lets run
MaxBodyMB == 1         \* largest response body, in MB
MaxFileMB == 3         \* largest Content-Length of the probe, in MB
MaxAvailMB == 2        \* largest available system memory, in MB
MaxBudgetMB == 2       \* the configured memory budget, in MB (source default: 300)
MaxUsageMB == 1        \* largest resident size of the process, in MB
MaxClock == 1          \* latest second that the wall clock shows

\* ------------------------------------------------------------- constants
MB == 1048576                       \* "/ 1024.0 / 1024.0"
UsizeMax == 2147483647              \* stands for usize::MAX (saturating cast)
NoOwner == 0                        \* the stats Mutex is free
U64Modulus == 65536                 \* stands for 2^64 (u64 arithmetic wraps)
SchedOwner == MaxRequested + 1      \* the stats Mutex is held by start()/handle_exit()

Items == 1..MaxRequested
Owners == Items \cup {SchedOwner}

VARIABLES
    pc,                 \* position of start() / handle_exit()
    clock_max,          \* the wall clock shows one of the seconds 0..clock_max
    batch_start_time,   \* the local of line 241; 0 when it cannot be read any more
    last_end_time,      \* Downloader.last_end_time (AtomicI64), -1 until stored
    valid_url,          \* url.starts_with("http://") || url.starts_with("https://")
    download_dir,       \* Downloader.download_dir, a sequence of path components
    fsDirs,             \* directories that exist
    fsFiles,            \* number of regular files in each directory that exists
    max_memory_mb,      \* Downloader.max_memory_mb (AtomicU64)
    stats,              \* DownloadStats behind the Mutex
    lock,               \* owner of the stats Mutex, NoOwner when free
    batch_size,         \* requested batch size (batch_size.unwrap_or(20)); 0 once dead
    file_size,          \* result of get_file_size, bytes; 0 once dead
    available_memory,   \* system.available_memory() of the snapshot, bytes; 0 once dead
    process_memory,     \* process.memory() of the snapshot, bytes
    actual_batch_size,  \* min(batch_size, safe_batch_size)
    ctrl_c,             \* the pinned ctrl_c future is ready
    sleep_done,         \* the select's sleep(1s) future is ready
    tasks,              \* the futures of the current batch, one record per item
    tmp,                \* counter value read by each owner of the lock, 0 outside "+="
    results,            \* output of join_all for the current tick
    ticks,              \* completed ticks
    next_uuid,          \* Uuid::new_v4() source: never repeats
    exit_code,          \* process exit status, -1 while running
    log,                \* observable events of start-up and shutdown, in order
    printed,            \* the counters as handle_exit and the banner printed them
    hist                \* history: what has been issued and recorded so far

vars == <<pc, clock_max, batch_start_time, last_end_time, valid_url, download_dir,
          fsDirs, fsFiles, max_memory_mb, stats, lock,
          batch_size, file_size, available_memory, process_memory,
          actual_batch_size, ctrl_c, sleep_done, tasks, tmp, results, ticks,
          next_uuid, exit_code, log, printed, hist>>

\* ------------------------------------------------------------ pure parts
Max(a, b) == IF a >= b THEN a ELSE b
Min(a, b) == IF a <= b THEN a ELSE b

\* (available_memory_mb / file_size_mb * 2.0) as usize : the f64 quotient is
\* +inf for x/0 with x > 0 and NaN for 0/0; "as usize" saturates +inf to
\* usize::MAX and maps NaN to 0.
SafeQuotient(avail, size) ==
    IF size = 0
    THEN IF avail = 0 THEN 0 ELSE UsizeMax
    ELSE (2 * avail) \div size

\* Variant: the quotient is used as it is.
safe_batch_size_unclamped(avail, size) == SafeQuotient(avail, size)

\* line 211: std::cmp::max(1, ... as usize)
safe_batch_size(avail, size) == Max(1, SafeQuotient(avail, size))

\* line 212: std::cmp::min(batch_size, safe_batch_size)
ActualBatchSize(requested, avail, size) == Min(requested, safe_batch_size(avail, size))

\* Variant: the check asks for the memory of one item.
check_memory_availability_per_item(avail, batch, size) == avail > size

\* Variant: equality passes the check.
check_memory_availability_ge(avail, batch, size) == avail >= batch * size

\* available_memory_mb > batch_size as f64 * estimated_file_size_mb
check_memory_availability(avail, batch, size) == avail > batch * size

\* Variant: an item that exactly fills the budget stays in memory.
MemoryResident_le(usage, len, budget) == usage + len <= budget * MB

\* line 150: memory_usage_mb + content_size_mb < max_memory_mb as f64
MemoryResident(usage, len, budget) == usage + len < budget * MB

\* str::starts_with on sequences of characters.
StartsWith(s, prefix) ==
    /\ Len(s) >= Len(prefix)
    /\ SubSeq(s, 1, Len(prefix)) = prefix

\* line 197: url.starts_with("http://") || url.starts_with("https://")
HasHttpScheme(u) ==
    \/ StartsWith(u, <<"h", "t", "t", "p", ":", "/", "/">>)
    \/ StartsWith(u, <<"h", "t", "t", "p", "s", ":", "/", "/">>)

\* The line that main reads and trims: two accepted targets, and targets
\* with another scheme, a scheme in capitals, a slash too few, and nothing.
FtpUrl == <<"f", "t", "p", ":", "/", "/", "e", "x", "a", "m", "p", "l", "e",
           ".", "c", "o", "m", "/", "x">>
Urls == {<<"h", "t", "t", "p", ":", "/", "/", "h", "/", "x">>,
         <<"h", "t", "t", "p", "s", ":", "/", "/", "h", "/", "x">>,
         FtpUrl,
         <<"H", "T", "T", "P", ":", "/", "/", "h", "/", "x">>,
         <<"h", "t", "t", "p", ":", "/", "h", "/", "x">>,
         <<>>}

\* Subtraction of u64 values.
WrapSub(a, b) == (a - b) % U64Modulus

\* lines 272-276: the reference of the elapsed time is the end of the
\* previous tick once one is stored, the start of this tick before that.
ElapsedTime(current_time, last_end, batch_start) ==
    IF last_end >= 0
    THEN WrapSub(current_time, last_end)
    ELSE WrapSub(current_time, batch_start)

\* line 279: actual_batch_size as f64 / (if elapsed_time > 0 { elapsed_time
\* as f64 } else { 1.0 }), kept as numerator and denominator.
AvgSpeed(batch, elapsed) ==
    [num |-> batch, den |-> IF elapsed > 0 THEN elapsed ELSE 1]

\* A path is a directory (sequence of components) plus a file name.
\* Path::new(&download_dir).join(file_name)
PathJoin(dir, name) == [dirs |-> dir, name |-> name]

\* format!("{}.dat", Uuid::new_v4())
DatName(uuid) == [id |-> uuid, ext |-> "dat"]

\* format!("{}/{}", self.download_dir, file_name): the second argument is
\* pasted after the directory whatever it holds.
SavePath(dir, file_name) == [dirs |-> dir \o file_name.dirs, name |-> file_name.name]

\* One future of download_file: its position, the length of the content it
\* holds, the placement it chose, its return value and its file_path argument.
IdleTask == [st |-> "idle", len |-> 0, placement |-> "none",
             ret |-> "pending", file_path |-> PathJoin(<<>>, DatName(0))]

\* History of the run: metadata probes and download attempts issued, failure and byte updates
\* completed by items, writes of the budget and of the counters made without
\* the lock, and the counters as they were when the current tick started.
\* (mem_ok, disk_ok: byte updates completed by placement; feasible: what the
\* admission check returned; tick_sum: bytes at the start of the tick.)
InitHist == [probes |-> 0, attempts |-> 0, failed |-> 0, bytes |-> 0, ok_bytes |-> 0,
             mem_ok |-> 0, disk_ok |-> 0, feasible |-> "unchecked",
             budget_writes |-> 0, unlocked_writes |-> 0,
             tick_files |-> 0, tick_failed |-> 0, tick_bytes |-> 0, tick_sum |-> 0]

NothingPrinted == [summary_files |-> -1, summary_bytes |-> -1, banner_files |-> -1,
                   banner_failed |-> -1, banner_bytes |-> -1,
                   elapsed_time |-> -1, avg_speed |-> [num |-> 0, den |-> 1]]

\* What the clock readings of a tick are kept in.
TickTimes == <<batch_start_time, last_end_time>>

Init ==
    /\ pc = "Validate"
    /\ batch_start_time = 0
    /\ last_end_time = -1
    /\ \E url \in Urls : valid_url = HasHttpScheme(url)
    /\ download_dir = <<"downloads">>
    /\ \E nested \in BOOLEAN :
          fsDirs = {download_dir} \cup (IF nested THEN {download_dir \o download_dir} ELSE {})
    /\ \E leftover \in 0..1 :
          fsFiles = [d \in fsDirs |-> IF d = download_dir THEN leftover ELSE 0]
    /\ max_memory_mb = MaxBudgetMB
    /\ stats = [total_files |-> 0, failed_downloads |-> 0, total_bytes |-> 0,
                start_time |-> "None"]
    /\ lock = NoOwner
    /\ \E moving \in BOOLEAN :
          /\ clock_max = IF moving THEN MaxClock ELSE 0
          /\ batch_size \in IF moving THEN {1} ELSE 1..MaxRequested
    /\ file_size = 0
    /\ available_memory = 0
    /\ process_memory = 0
    /\ actual_batch_size = 0
    /\ ctrl_c = FALSE
    /\ sleep_done = FALSE
    /\ tasks = [i \in Items |-> IdleTask]
    /\ tmp = [o \in Owners |-> 0]
    /\ results = [i \in Items |-> "none"]
    /\ ticks = 0
    /\ next_uuid = 1
    /\ exit_code = -1
    /\ log = <<>>
    /\ printed = NothingPrinted
    /\ hist = InitHist

\* ------------------------------------------------------- start(): prelude
\* lines 197-202: the scheme test; Err("Invalid URL") ends main with a failure.
\* Variant: the probe is sent whatever the scheme.
AfterValidate_lenient(valid) == "Probe"

\* lines 197-204: where start() goes after the scheme test.
AfterValidate(valid) == IF valid THEN "Probe" ELSE "Aborted"

Validate ==
    /\ pc = "Validate"
    /\ pc' = AfterValidate(valid_url)
    /\ IF pc' = "Aborted"
       THEN exit_code' = 1 /\ log' = Append(log, "InvalidURL")
       ELSE UNCHANGED <<exit_code, log>>
    /\ UNCHANGED <<clock_max, TickTimes, valid_url, download_dir,
                   fsDirs, fsFiles, max_memory_mb, stats, lock,
                   batch_size, file_size, available_memory, process_memory,
                   actual_batch_size, ctrl_c, sleep_done, tasks, tmp, results, ticks,
                   next_uuid, printed, hist>>

\* lines 88-98 and 205: HEAD request; a transport error, a missing, a non-ASCII
\* or an unparsable Content-Length all propagate with "?".
ProbeErrors == {"HeadFailed", "NoContentLength", "NotAscii", "ParseFailed"}

\* Variant: a probe without a size goes on with the size it has.
AfterProbe_go_on(result) == "Plan"

\* line 205: the "?" on the result of get_file_size.
AfterProbe(result) == IF result = "Ok" THEN "Plan" ELSE "Aborted"

get_file_size ==
    /\ pc = "Probe"
    /\ hist' = [hist EXCEPT !.probes = @ + 1]
    /\ \/ \E e \in ProbeErrors :
             /\ pc' = AfterProbe("Err")
             /\ log' = Append(log, e)
             /\ exit_code' = IF pc' = "Aborted" THEN 1 ELSE exit_code
             /\ UNCHANGED file_size
       \/ \E mb \in 0..MaxFileMB :
             /\ file_size' = mb * MB
             /\ pc' = AfterProbe("Ok")
             /\ UNCHANGED <<exit_code, log>>
    /\ UNCHANGED <<clock_max, TickTimes, valid_url, download_dir,
                   fsDirs, fsFiles, max_memory_mb, stats, lock,
                   batch_size, available_memory, process_memory,
                   actual_batch_size, ctrl_c, sleep_done, tasks, tmp, results, ticks,
                   next_uuid, printed>>

\* lines 208-214: one System snapshot, taken here and never refreshed; the
\* batch size is computed from it.
Plan ==
    /\ pc = "Plan"
    /\ \E a \in 0..MaxAvailMB, u \in 0..MaxUsageMB :
          /\ available_memory' = a * MB
          /\ process_memory' = u * MB
          /\ actual_batch_size' = ActualBatchSize(batch_size, a * MB, file_size)
    /\ pc' = "Admission"
    /\ UNCHANGED <<clock_max, TickTimes, valid_url, download_dir,
                   fsDirs, fsFiles, max_memory_mb, stats, lock,
                   batch_size, file_size, ctrl_c, sleep_done, tasks, tmp, results, ticks,
                   next_uuid, exit_code, log, printed, hist>>

\* Variant: the failed check lowers the budget by one instead of collapsing it.
BudgetAfterAdmission_decrement(feasible, budget) == IF feasible THEN budget ELSE budget - 1

\* lines 216-219: the value of max_memory_mb after the admission check.
BudgetAfterAdmission(feasible, budget) == IF feasible THEN budget ELSE 0

Admission ==
    /\ pc = "Admission"
    /\ LET feasible == check_memory_availability(available_memory, actual_batch_size,
                                                 file_size)
       IN  /\ max_memory_mb' = BudgetAfterAdmission(feasible, max_memory_mb)
           /\ hist' = [hist EXCEPT !.budget_writes = IF feasible THEN @ ELSE @ + 1,
                                   !.feasible = IF feasible THEN "yes" ELSE "no"]
    /\ pc' = "Build"
    /\ UNCHANGED <<clock_max, TickTimes, valid_url, download_dir,
                   fsDirs, fsFiles, stats, lock,
                   batch_size, file_size, available_memory, process_memory,
                   actual_batch_size, ctrl_c, sleep_done, tasks, tmp, results, ticks,
                   next_uuid, exit_code, log, printed>>

\* lines 221-224: ClientBuilder::build()? can fail.
BuildClient ==
    /\ pc = "Build"
    /\ \/ pc' = "RecordStart" /\ UNCHANGED <<exit_code, log>>
       \/ pc' = "Aborted" /\ exit_code' = 1 /\ log' = Append(log, "BuildFailed")
    /\ UNCHANGED <<clock_max, TickTimes, valid_url, download_dir,
                   fsDirs, fsFiles, max_memory_mb, stats, lock,
                   batch_size, file_size, available_memory, process_memory,
                   actual_batch_size, ctrl_c, sleep_done, tasks, tmp, results, ticks,
                   next_uuid, printed, hist>>

\* Variant: a lock that is granted whoever holds it.
LockFree_always(l) == TRUE

\* The guard of every self.stats.lock().await.
LockFree(l) == l = NoOwner

\* lines 227-229: lock, start_time = Some(now), drop(lock).  The locals
\* batch_size, file_size and available_memory of the prelude are never read
\* from here on (their last use is line 216): the model forgets them.
RecordStart ==
    /\ pc = "RecordStart"
    /\ LockFree(lock)
    /\ stats' = [stats EXCEPT !.start_time = "Some"]
    /\ pc' = "WaitTick"
    /\ sleep_done' = FALSE
    /\ batch_size' = 0
    /\ file_size' = 0
    /\ available_memory' = 0
    /\ UNCHANGED <<clock_max, TickTimes, valid_url, download_dir,
                   fsDirs, fsFiles, max_memory_mb, lock,
                   process_memory, actual_batch_size, ctrl_c, tasks, tmp, results, ticks,
                   next_uuid, exit_code, log, printed, hist>>

\* ------------------------------------------------------ download_file()
\* Variant: a tick downloads one item whatever the plan says.
Batch_single == 1..1

\* line 253: for _ in 0..actual_batch_size
Batch == 1..actual_batch_size

BodyLens == {mb * MB : mb \in 1..MaxBodyMB}

\* What one item leaves unchanged: everything but tasks, and what it names.
ItemFrame == <<pc, clock_max, TickTimes, valid_url, download_dir, max_memory_mb,
               batch_size, file_size,
               available_memory, process_memory, actual_batch_size, ctrl_c,
               sleep_done, results, ticks, next_uuid, exit_code, log, printed>>

\* The error paths: the message is printed, then the failure is recorded.
Failed(t) == [t EXCEPT !.st = "wantFail"]

\* lines 118-135: client.get(url).send().await, then the status test.
Send(i) ==
    /\ tasks[i].st = "send"
    /\ \/ tasks' = [tasks EXCEPT ![i] = Failed(@)]      \* Err(e) of send()
       \/ tasks' = [tasks EXCEPT ![i] = Failed(@)]      \* !status.is_success()
       \/ tasks' = [tasks EXCEPT ![i].st = "body"]
    /\ UNCHANGED <<ItemFrame, fsDirs, fsFiles, stats, lock, tmp, hist>>

\* lines 137-153: response.bytes().await, then the placement decision, which
\* reads the process memory of the start-up snapshot and the current budget.
Body(i) ==
    /\ tasks[i].st = "body"
    /\ \/ tasks' = [tasks EXCEPT ![i] = Failed(@)]
       \/ \E len \in BodyLens :
             tasks' = [tasks EXCEPT ![i] =
                IF MemoryResident(process_memory, len, max_memory_mb)
                THEN [@ EXCEPT !.st = "wantBytes", !.len = len, !.placement = "Memory"]
                ELSE [@ EXCEPT !.st = "save", !.len = len, !.placement = "Disk"]]
    /\ UNCHANGED <<ItemFrame, fsDirs, fsFiles, stats, lock, tmp, hist>>

\* lines 100-107 and 154-159: File::create needs the parent directory, and
\* can fail even then.  The name is a fresh uuid, so a file that is created
\* is one more file in its directory.
save_to_disk(i) ==
    /\ tasks[i].st = "save"
    /\ LET path == SavePath(download_dir, tasks[i].file_path)
       IN  IF path.dirs \in fsDirs
           THEN \/ /\ fsFiles' = [fsFiles EXCEPT ![path.dirs] = @ + 1]
                   /\ tasks' = [tasks EXCEPT ![i].st = "wantBytes"]
                \/ /\ fsFiles' = fsFiles
                   /\ tasks' = [tasks EXCEPT ![i] = Failed(@)]
           ELSE /\ fsFiles' = fsFiles
                /\ tasks' = [tasks EXCEPT ![i] = Failed(@)]
    /\ UNCHANGED <<ItemFrame, fsDirs, stats, lock, tmp, hist>>

\* lines 122, 132, 141, 156: let mut lock = self.stats.lock().await
LockForFailure(i) ==
    /\ tasks[i].st = "wantFail"
    /\ LockFree(lock)
    /\ lock' = i
    /\ tmp' = [tmp EXCEPT ![i] = stats.failed_downloads]
    /\ tasks' = [tasks EXCEPT ![i].st = "csFail"]
    /\ UNCHANGED <<ItemFrame, fsDirs, fsFiles, stats, hist>>

\* lines 123-124, 133-134, 142-143, 157-158: failed_downloads += 1; the guard
\* is dropped by the return of Err.
RecordFailure(i) ==
    /\ tasks[i].st = "csFail"
    /\ stats' = [stats EXCEPT !.failed_downloads = tmp[i] + 1]
    /\ lock' = NoOwner
    /\ tasks' = [tasks EXCEPT ![i].st = "done", ![i].ret = "Err", ![i].len = 0,
                              ![i].placement = "none"]
    /\ hist' = [hist EXCEPT !.failed = @ + 1,
                            !.unlocked_writes = IF lock = i THEN @ ELSE @ + 1]
    /\ tmp' = [tmp EXCEPT ![i] = 0]
    /\ UNCHANGED <<ItemFrame, fsDirs, fsFiles>>

\* lines 151 and 160: let mut lock = self.stats.lock().await
LockForBytes(i) ==
    /\ tasks[i].st = "wantBytes"
    /\ LockFree(lock)
    /\ lock' = i
    /\ tmp' = [tmp EXCEPT ![i] = stats.total_bytes]
    /\ tasks' = [tasks EXCEPT ![i].st = "csBytes"]
    /\ UNCHANGED <<ItemFrame, fsDirs, fsFiles, stats, hist>>

\* Variant: only content written to disk is counted.
RecordedBytes_disk_only(placement, len) == IF placement = "Memory" THEN 0 ELSE len

\* lines 152 and 161: the amount added to total_bytes, content.len() as u64
\* in both branches.
RecordedBytes(placement, len) == len

\* lines 152-168: total_bytes += content.len(); the guard is dropped at the
\* end of the branch; drop(content); Ok(()).
RecordBytes(i) ==
    /\ tasks[i].st = "csBytes"
    /\ stats' = [stats EXCEPT !.total_bytes =
                    tmp[i] + RecordedBytes(tasks[i].placement, tasks[i].len)]
    /\ lock' = NoOwner
    /\ tasks' = [tasks EXCEPT ![i].st = "done", ![i].ret = "Ok", ![i].len = 0,
                              ![i].placement = "none"]
    /\ hist' = [hist EXCEPT !.bytes = @ + tasks[i].len,
                            !.ok_bytes = @ + 1,
                            !.mem_ok = IF tasks[i].placement = "Memory" THEN @ + 1 ELSE @,
                            !.disk_ok = IF tasks[i].placement = "Disk" THEN @ + 1 ELSE @,
                            !.unlocked_writes = IF lock = i THEN @ ELSE @ + 1]
    /\ tmp' = [tmp EXCEPT ![i] = 0]
    /\ UNCHANGED <<ItemFrame, fsDirs, fsFiles>>

download_file(i) ==
    \/ Send(i)
    \/ Body(i)
    \/ save_to_disk(i)
    \/ LockForFailure(i)
    \/ RecordFailure(i)
    \/ LockForBytes(i)
    \/ RecordBytes(i)

\* ----------------------------------------------------- start(): the loop
SchedFrame == <<clock_max, valid_url, download_dir, fsDirs, max_memory_mb,
                batch_size, file_size,
                available_memory, process_memory, actual_batch_size>>

\* Variant: the ctrl_c future is also raced against the join of the batch.
CancelPoint_with_join(p) == p \in {"WaitTick", "Sleeping", "Join"}

\* The positions of start() at which the ctrl_c future is polled: the
\* select! of lines 235-240, on entry (WaitTick) and while pending (Sleeping).
CancelPoint(p) == p \in {"WaitTick", "Sleeping"}

\* lines 236-239: the ctrl_c branch of the select!: break.
CancelBranch ==
    /\ CancelPoint(pc)
    /\ ctrl_c
    /\ pc' = "Exit"
    /\ log' = Append(log, "CtrlC")
    /\ UNCHANGED <<SchedFrame, TickTimes, fsFiles, stats, lock, ctrl_c, sleep_done, tasks, tmp,
                   results, ticks, next_uuid, exit_code, printed, hist>>

\* line 235: the first poll of a select! whose ctrl_c is not ready: the new
\* sleep(1s) is pending, so start() suspends.
WaitTick ==
    /\ pc = "WaitTick"
    /\ ~ctrl_c
    /\ pc' = "Sleeping"
    /\ UNCHANGED <<SchedFrame, TickTimes, fsFiles, stats, lock, ctrl_c, sleep_done, tasks, tmp,
                   results, ticks, next_uuid, exit_code, log, printed, hist>>

\* line 240: the timer of tokio::time::sleep(1s) runs out.
TimerFire ==
    /\ pc = "Sleeping"
    /\ ~sleep_done
    /\ sleep_done' = TRUE
    /\ UNCHANGED <<pc, SchedFrame, TickTimes, fsFiles, stats, lock, ctrl_c, tasks, tmp,
                   results, ticks, next_uuid, exit_code, log, printed, hist>>

\* The operator presses Ctrl+C.  The listener of line 231 is registered by
\* the first poll of the select!, so the signal reaches the ctrl_c future
\* from then on, until the process ends.
ListenerRegistered ==
    \/ pc \in {"Sleeping", "Join", "Fold", "FoldWrite", "Cleanup"}
    \/ pc = "WaitTick" /\ ticks > 0

RaiseCtrlC ==
    /\ ListenerRegistered
    /\ ~ctrl_c
    /\ ctrl_c' = TRUE
    /\ UNCHANGED <<pc, SchedFrame, TickTimes, fsFiles, stats, lock, sleep_done, tasks, tmp,
                   results, ticks, next_uuid, exit_code, log, printed, hist>>

\* lines 254-257: the task of item i of a batch whose first uuid is u.
NewTask(i, u) == [IdleTask EXCEPT !.st = "send",
                                  !.file_path = PathJoin(download_dir, DatName(u + i - 1))]

\* lines 240-259: the sleep branch of the select!: read the clock and build
\* the batch.  batch_start_time is read again only at line 275, while nothing
\* is stored in last_end_time: the model does not keep it otherwise.
Launch ==
    /\ pc = "Sleeping"
    /\ sleep_done
    /\ ticks < MaxTicks
    /\ \E now \in 0..clock_max :
          batch_start_time' = IF last_end_time >= 0 THEN 0 ELSE now
    /\ tasks' = [i \in Items |-> IF i \in Batch THEN NewTask(i, next_uuid) ELSE IdleTask]
    /\ next_uuid' = next_uuid + actual_batch_size
    /\ hist' = [hist EXCEPT !.attempts = @ + actual_batch_size,
                            !.tick_files = stats.total_files,
                            !.tick_failed = stats.failed_downloads,
                            !.tick_bytes = stats.total_bytes,
                            !.tick_sum = hist.bytes]
    /\ pc' = "Join"
    /\ UNCHANGED <<SchedFrame, last_end_time, fsFiles, stats, lock, ctrl_c, sleep_done, tmp,
                   results, ticks, exit_code, log, printed>>

\* Variant: the results of the join are not folded into the stats.
AfterJoin_skip_fold(res) == "Cleanup"

\* Variant: an Err among the results is propagated out of start().
AfterJoin_propagate(res) == IF \E i \in Batch : res[i] = "Err" THEN "Aborted" ELSE "Fold"

\* Where start() goes once join_all has returned the results: line 263
\* counts the Ok results and propagates no Err.
AfterJoin(res) == "Fold"

\* line 261: futures::future::join_all(tasks).await returns when every task
\* has returned.
Join ==
    /\ pc = "Join"
    /\ \A i \in Batch : tasks[i].st = "done"
    /\ results' = [i \in Items |-> IF i \in Batch THEN tasks[i].ret ELSE "none"]
    /\ pc' = AfterJoin(results')
    /\ exit_code' = IF pc' = "Aborted" THEN 1 ELSE exit_code
    /\ UNCHANGED <<SchedFrame, TickTimes, fsFiles, stats, lock, ctrl_c, sleep_done, tasks, tmp,
                   ticks, next_uuid, log, printed, hist>>

\* Variant: every item of the batch is counted as a file.
successful_downloads_all(res) == actual_batch_size

\* line 263: results.iter().filter(|r| r.is_ok()).count()
successful_downloads(res) == Cardinality({i \in Batch : res[i] = "Ok"})

\* line 264: let mut lock = self.stats.lock().await
Fold ==
    /\ pc = "Fold"
    /\ LockFree(lock)
    /\ lock' = SchedOwner
    /\ tmp' = [tmp EXCEPT ![SchedOwner] = stats.total_files]
    /\ pc' = "FoldWrite"
    /\ UNCHANGED <<SchedFrame, TickTimes, fsFiles, stats, ctrl_c, sleep_done, tasks,
                   results, ticks, next_uuid, exit_code, log, printed, hist>>

\* lines 265-266: total_files += successful_downloads; drop(lock)
FoldWrite ==
    /\ pc = "FoldWrite"
    /\ stats' = [stats EXCEPT !.total_files = tmp[SchedOwner] + successful_downloads(results)]
    /\ lock' = NoOwner
    /\ hist' = [hist EXCEPT !.unlocked_writes = IF lock = SchedOwner THEN @ ELSE @ + 1]
    /\ tmp' = [tmp EXCEPT ![SchedOwner] = 0]
    /\ pc' = "Cleanup"
    /\ UNCHANGED <<SchedFrame, TickTimes, fsFiles, ctrl_c, sleep_done, tasks,
                   results, ticks, next_uuid, exit_code, log, printed>>

\* lines 54-63: every regular file directly in the download directory is
\* removed; directories and what they hold are left alone.
cleanup_files(files) == [files EXCEPT ![download_dir] = 0]

\* lines 268-284, then the end of the loop body: the elapsed time and the
\* speed are printed, the directory is swept, the tasks and results of the
\* tick are dropped and the next select! starts with a new sleep.
Cleanup ==
    /\ pc = "Cleanup"
    /\ \E current_time \in 0..clock_max :
          LET elapsed_time == ElapsedTime(current_time, last_end_time, batch_start_time)
          IN  /\ last_end_time' = current_time
              /\ printed' = [printed EXCEPT
                     !.elapsed_time = elapsed_time,
                     !.avg_speed = AvgSpeed(actual_batch_size, elapsed_time)]
    /\ batch_start_time' = 0
    /\ fsFiles' = cleanup_files(fsFiles)
    /\ tasks' = [i \in Items |-> IdleTask]
    /\ results' = [i \in Items |-> "none"]
    /\ ticks' = ticks + 1
    /\ sleep_done' = FALSE
    /\ pc' = "WaitTick"
    /\ UNCHANGED <<SchedFrame, stats, lock, ctrl_c, tmp, next_uuid, exit_code, log, hist>>

\* ------------------------------------------------------------ handle_exit
\* Variant: the summary is followed by the banner at once.
AfterSummary_no_sweep == "Banner"

\* lines 303-304: what handle_exit does after the summary.
AfterSummary == "FinalCleanup"

\* Variant: the guard of the summary is still alive when the banner locks.
LockAfterSummary_kept == SchedOwner

\* line 303: drop(s)
LockAfterSummary == NoOwner

\* lines 296-303: the summary, read under the lock.
Summary ==
    /\ pc = "Exit"
    /\ LockFree(lock)
    /\ printed' = [printed EXCEPT !.summary_files = stats.total_files,
                                  !.summary_bytes = stats.total_bytes]
    /\ log' = Append(log, "Summary")
    /\ lock' = LockAfterSummary
    /\ pc' = AfterSummary
    /\ UNCHANGED <<SchedFrame, TickTimes, fsFiles, stats, ctrl_c, sleep_done, tasks, tmp,
                   results, ticks, next_uuid, exit_code, hist>>

\* line 304
FinalCleanup ==
    /\ pc = "FinalCleanup"
    /\ fsFiles' = cleanup_files(fsFiles)
    /\ log' = Append(log, "Cleanup")
    /\ pc' = "Banner"
    /\ UNCHANGED <<SchedFrame, TickTimes, stats, lock, ctrl_c, sleep_done, tasks, tmp,
                   results, ticks, next_uuid, exit_code, printed, hist>>

\* lines 171-193 and 305
display_completion_banner ==
    /\ pc = "Banner"
    /\ LockFree(lock)
    /\ printed' = [printed EXCEPT !.banner_files = stats.total_files,
                                  !.banner_failed = stats.failed_downloads,
                                  !.banner_bytes = stats.total_bytes]
    /\ log' = Append(log, "Banner")
    /\ pc' = "ProcessExit"
    /\ UNCHANGED <<SchedFrame, TickTimes, fsFiles, stats, lock, ctrl_c, sleep_done, tasks, tmp,
                   results, ticks, next_uuid, exit_code, hist>>

\* line 306: the status of std::process::exit
ExitStatus == 0

ProcessExit ==
    /\ pc = "ProcessExit"
    /\ exit_code' = ExitStatus
    /\ log' = Append(log, "Exit")
    /\ pc' = "Terminated"
    /\ UNCHANGED <<SchedFrame, TickTimes, fsFiles, stats, lock, ctrl_c, sleep_done, tasks, tmp,
                   results, ticks, next_uuid, printed, hist>>

\* ---------------------------------------------------------- specification
start ==
    \/ Validate
    \/ get_file_size
    \/ Plan
    \/ Admission
    \/ BuildClient
    \/ RecordStart
    \/ WaitTick
    \/ CancelBranch
    \/ Launch
    \/ Join
    \/ Fold
    \/ FoldWrite
    \/ Cleanup

handle_exit ==
    \/ Summary
    \/ FinalCleanup
    \/ display_completion_banner
    \/ ProcessExit

Next ==
    \/ start
    \/ handle_exit
    \/ \E i \in Items : download_file(i)
    \/ TimerFire
    \/ RaiseCtrlC

Spec == Init /\ [][Next]_vars

\* The runtime keeps polling while a task can run: start(), handle_exit() and
\* the downloads together do not stop while one of them has a step to take
\* (a transfer ends at the client's 30 s timeout at the latest).  Nothing is
\* assumed of the timer or of the operator.
Progress == start \/ handle_exit \/ \E i \in Items : download_file(i)

FairSpec == Spec /\ WF_vars(Progress)

\* ------------------------------------------------------------- properties
Finalize == {"Exit", "FinalCleanup", "Banner", "ProcessExit", "Terminated"}
BetweenTicks == {"WaitTick", "Sleeping"}
InLoop == {"WaitTick", "Sleeping", "Join", "Fold", "FoldWrite", "Cleanup"}
InFlight(i) == tasks[i].st \notin {"idle", "done"}
TickFailures == Cardinality({i \in Batch : results[i] = "Err"})

C3_NoLostUpdate ==
    /\ stats.failed_downloads = hist.failed
    /\ stats.total_bytes = hist.bytes
    /\ hist.unlocked_writes = 0
    /\ \A i \in Items : tasks[i].st \in {"csFail", "csBytes"} => lock = i
    /\ pc = "FoldWrite" => lock = SchedOwner

\* One item holds the lock for its failure while the other item of the tick
\* waits for it with bytes to add.
C3_Witness ==
    \E i, j \in Items :
        /\ tasks[i].st = "csFail"
        /\ lock = i
        /\ tasks[j].st = "wantBytes"
        /\ tasks[j].len = MB

\* How start() moves out of the select!, out of the join and through the rest of a tick.
C4_LeavesLoop ==
    /\ pc' = "Exit" /\ pc # "Exit" => pc \in BetweenTicks
    /\ pc = "Join" /\ pc' # "Join" => pc' = "Fold" /\ \A i \in Batch : tasks[i].st = "done"
    /\ pc \in {"Fold", "FoldWrite", "Cleanup"} => pc' \in {"Fold", "FoldWrite", "Cleanup", "WaitTick"}

\* What holds of the batch, the stats and the directory in Finalize.
C4_FinalizeQuiet ==
    pc \in Finalize =>
       /\ \A i \in Items : tasks[i].st = "idle"
       /\ stats.total_files + stats.failed_downloads = hist.attempts
       /\ ticks > 0 => cleanup_files(fsFiles) = fsFiles

\* C4: start() leaves the loop only from the select! (WaitTick), a join in
\* progress only ends with every item done, and in Finalize no item download
\* is in flight, every attempt issued is folded into the stats and, if a tick
\* has run, the download directory has been swept.
C4_CancelNeverPreempts == [][C4_LeavesLoop]_vars /\ []C4_FinalizeQuiet

\* Ctrl+C is pending while both items of a batch are still in flight.
C4_Witness ==
    /\ pc = "Join"
    /\ ctrl_c
    /\ \A i \in Batch : InFlight(i)
    /\ actual_batch_size = 2

\* The events of a shutdown, in order.
ShutdownOrder == <<"CtrlC", "Summary", "Cleanup", "Banner", "Exit">>

\* After the observation nothing is launched or recorded.
C5_AfterObserved ==
    pc \in Finalize =>
       /\ hist.attempts' = hist.attempts
       /\ stats' = stats
       /\ pc' \in Finalize

\* The shutdown events happen in order and print the stats as they are.
C5_Shutdown ==
    /\ pc \in Finalize =>
          /\ Len(log) <= Len(ShutdownOrder)
          /\ log = SubSeq(ShutdownOrder, 1, Len(log))
    /\ pc \in {"FinalCleanup", "Banner", "ProcessExit", "Terminated"} =>
          /\ printed.summary_files = stats.total_files
          /\ printed.summary_bytes = stats.total_bytes
    /\ pc \in {"Banner", "ProcessExit", "Terminated"} => cleanup_files(fsFiles) = fsFiles
    /\ pc = "Terminated" => log = ShutdownOrder /\ exit_code = 0
    /\ exit_code = 0 => pc = "Terminated"

C6_LoopSteps ==
    /\ pc = "Join" /\ pc' # "Join" => pc' = "Fold" /\ \A i \in Batch : tasks[i].st = "done"
    /\ pc = "Fold" /\ pc' # "Fold" => pc' = "FoldWrite"
    /\ pc = "FoldWrite" /\ pc' # "FoldWrite" =>
          pc' = "Cleanup" /\ stats'.total_files + stats'.failed_downloads = hist.attempts
    /\ pc = "Cleanup" /\ pc' # "Cleanup" => pc' = "WaitTick" /\ ticks' = ticks + 1
    /\ pc \in InLoop /\ pc' \notin InLoop => pc' = "Exit" /\ ctrl_c
    /\ pc' = "Aborted" => pc \in {"Validate", "Probe", "Build", "Aborted"}

\* start() has failed: nothing was issued.
C6_FatalOnlyBefore ==
    pc = "Aborted" =>
       /\ hist.attempts = 0
       /\ ticks = 0
       /\ stats.start_time = "None"
       /\ exit_code = 1

C7_ItemBytes ==
    \A i \in Items :
       /\ tasks[i].st = "csBytes" /\ tasks'[i].st = "done" =>
             /\ stats'.total_bytes = stats.total_bytes + tasks[i].len
             /\ tasks'[i].ret = "Ok"
       /\ tasks[i].st # "done" /\ tasks'[i].st = "done" /\ tasks'[i].ret = "Err" =>
             stats'.total_bytes = stats.total_bytes

\* What a folded tick has added to total_bytes.
C7_TickBytes ==
    pc = "Cleanup" => stats.total_bytes - hist.tick_bytes = hist.bytes - hist.tick_sum

\* C7: an item that ends Ok adds exactly the length of its body to
\* total_bytes, in memory or on disk, and an item that ends Err adds nothing;
\* so once a tick is folded total_bytes has grown by the sum of the body
\* lengths of the successful items of the tick.
C7_BytesOfSuccesses == [][C7_ItemBytes]_vars /\ []C7_TickBytes

\* A folded tick of two items, one written to disk and one failed.
C7_Witness ==
    /\ pc = "Cleanup"
    /\ hist.disk_ok = 1
    /\ TickFailures = 1
    /\ stats.total_bytes - hist.tick_bytes = MB

\* The outcome of the admission check, as left by lines 216-219.
C8_Check ==
    pc \in {"Build", "RecordStart"} =>
       /\ available_memory > actual_batch_size * file_size =>
             hist.feasible = "yes" /\ max_memory_mb = MaxBudgetMB
       /\ available_memory <= actual_batch_size * file_size =>
             hist.feasible = "no" /\ max_memory_mb = 0

\* After a failed check nothing is memory-resident.
C8_DiskOnly ==
    hist.feasible = "no" =>
       /\ max_memory_mb = 0
       /\ hist.mem_ok = 0
       /\ \A i \in Items : tasks[i].placement # "Memory"

\* After a failed check a body that was read goes to save_to_disk.
C8_BodyGoesToDisk ==
    \A i \in Items :
       hist.feasible = "no" /\ tasks[i].st = "body" /\ tasks'[i].st \notin {"body", "wantFail"}
          => tasks'[i].placement = "Disk" /\ tasks'[i].st = "save"

\* C8: the admission check passes exactly when available memory is more than
\* batch size x item size; when it fails the budget is 0, and from then on no
\* item of any tick is memory-resident, whatever the process memory and the
\* body length: every body read takes disk placement.
C8_InfeasibleMeansDisk == []C8_Check /\ []C8_DiskOnly /\ [][C8_BodyGoesToDisk]_vars

\* In a run whose check failed, an item that would fit the configured budget
\* (the process uses no memory) has taken disk placement.
C8_Witness ==
    /\ hist.feasible = "no"
    /\ pc = "Join"
    /\ process_memory = 0
    /\ \E i \in Items : tasks[i].placement = "Disk" /\ tasks[i].len = MB

\* The steps that change the budget.
C9_BudgetStep ==
    /\ max_memory_mb' # max_memory_mb => pc = "Admission" /\ max_memory_mb' = 0
    /\ max_memory_mb = 0 => max_memory_mb' = 0
    /\ hist.budget_writes' # hist.budget_writes => pc = "Admission"

\* The values of the budget.
C9_BudgetRange ==
    /\ max_memory_mb \in {0, MaxBudgetMB}
    /\ hist.budget_writes <= 1
    /\ hist.budget_writes = 0 => max_memory_mb = MaxBudgetMB

\* C9: max_memory_mb changes only in the admission check and only to 0, the
\* store is executed at most once, the value is never above the configured
\* budget, and once 0 it stays 0.
C9_BudgetOneWay == [][C9_BudgetStep]_vars /\ []C9_BudgetRange

\* The budget was collapsed once and is still 0 when the process exits after
\* a tick.
C9_Witness ==
    /\ max_memory_mb = 0
    /\ hist.budget_writes = 1
    /\ ticks = 1
    /\ pc = "Terminated"

\* C10 as stated: the file of an item that takes disk placement is created
\* directly under the download directory, with the name generated for it, and
\* in no other directory.
C10_FileUnderDownloadDir ==
    /\ \A i \in Items :
          tasks[i].st = "save" =>
             SavePath(download_dir, tasks[i].file_path) =
                PathJoin(download_dir, tasks[i].file_path.name)
    /\ \A d \in fsDirs : d # download_dir => fsFiles[d] = 0

\* The states that follow a sweep: the select! after the Cleanup of a tick,
\* and handle_exit after its cleanup_files.
Swept ==
    \/ pc = "WaitTick" /\ ticks > 0
    \/ pc \in {"Banner", "ProcessExit", "Terminated"}

\* C11 as stated: after the Cleanup of a tick and after the final Cleanup no
\* regular file is left, neither one that was in the download directory
\* before nor one that a disk-placed item of the run has written (the only
\* files outside the download directory are files that items have written).
C11_SweepLeavesNothing == Swept => \A d \in fsDirs : fsFiles[d] = 0

\* floor(x) for the rational x = num / den with den > 0: the q with
\* q <= x < q + 1.
IsFloor(q, num, den) == q * den <= num /\ num < (q + 1) * den

\* C12: when start() has computed the batch size from a requested size >= 1,
\* a positive available memory and a positive item size, the batch size lies
\* in 1..requested and is min(requested, max(1, floor(available / item * 2)))
\* (requested 20, available 1000 MB, item 10 MB give 20; requested 20,
\* available 50 MB, item 10 MB give 10).
C12_BatchSizeFormula ==
    /\ pc = "Admission" /\ available_memory > 0 /\ file_size > 0 =>
          /\ actual_batch_size \in 1..batch_size
          /\ \E q \in 0..(2 * MaxAvailMB) :
                /\ IsFloor(q, 2 * available_memory, file_size)
                /\ actual_batch_size = Min(batch_size, Max(1, q))
    /\ ActualBatchSize(20, 1000 * MB, 10 * MB) = 20
    /\ ActualBatchSize(20, 50 * MB, 10 * MB) = 10

\* The quotient is below 1 (1 MB available, items of 3 MB) and the batch of
\* two requested items has been cut to one.
C12_Witness ==
    /\ pc = "Admission"
    /\ batch_size = 2
    /\ available_memory = MB
    /\ file_size = 3 * MB
    /\ actual_batch_size = 1

\* What a step does to the plan and to the batch of a tick.
C13_PlanStep ==
    /\ actual_batch_size' # actual_batch_size => pc = "Plan" /\ pc' = "Admission"
    /\ pc = "Sleeping" /\ pc' = "Join" =>
          /\ {i \in Items : tasks'[i].st = "send"} = 1..actual_batch_size
          /\ hist'.attempts = hist.attempts + actual_batch_size
    /\ pc = "Join" /\ pc' # "Join" =>
          \A i \in 1..actual_batch_size : tasks[i].st = "done" /\ tasks'[i] = tasks[i]

\* While an item of the batch has not returned, start() has no step to take.
C13_JoinWaits ==
    pc = "Join" /\ (\E i \in 1..actual_batch_size : tasks[i].st # "done") =>
        ~ENABLED (start \/ handle_exit)

FreshStats == [total_files |-> 0, failed_downloads |-> 0, total_bytes |-> 0,
               start_time |-> "None"]

\* Nothing has gone to the network and no batch has been built.
C14_NothingIssued ==
    /\ hist.probes = 0
    /\ hist.attempts = 0
    /\ \A i \in Items : tasks[i] = IdleTask
    /\ ticks = 0

\* The first step of start() on a rejected target is its last.
C14_RejectStep == ~valid_url /\ pc = "Validate" => pc' = "Aborted" /\ exit_code' = 1

\* C14: a target that starts with neither "http://" nor "https://" (such as
\* ftp://example.com/x) makes start() return the invalid-target error at
\* once: no probe and no download is issued, no batch runs, and the stats and
\* the memory budget are as Downloader::new left them.
C14_InvalidTargetRejected ==
    /\ ~HasHttpScheme(FtpUrl)
    /\ [][C14_RejectStep]_vars
    /\ [](~valid_url =>
            /\ pc \in {"Validate", "Aborted"}
            /\ C14_NothingIssued
            /\ stats = FreshStats
            /\ max_memory_mb = MaxBudgetMB
            /\ hist.budget_writes = 0
            /\ pc = "Aborted" => log = <<"InvalidURL">> /\ exit_code = 1)

\* start() has returned the invalid-target error.
C14_Witness ==
    /\ ~valid_url
    /\ pc = "Aborted"
    /\ log = <<"InvalidURL">>

\* The probe has ended in an error (log starts with the first thing start()
\* reports).
C15_ProbeFailed == log # <<>> /\ log[1] \in ProbeErrors

\* No step follows the return of an error from start().
C15_AbortIsFinal == pc = "Aborted" => UNCHANGED vars

\* C15: when the probe fails or its response has no usable Content-Length,
\* start() returns the error before the loop: one probe and no download has
\* been issued, no batch was built, start_time is not recorded, the counters
\* are 0, and nothing happens afterwards.
C15_ProbeFailureAborts ==
    /\ [](C15_ProbeFailed =>
            /\ pc = "Aborted"
            /\ exit_code = 1
            /\ hist.probes = 1
            /\ hist.attempts = 0
            /\ ticks = 0
            /\ \A i \in Items : tasks[i] = IdleTask
            /\ stats = FreshStats)
    /\ [][C15_AbortIsFinal]_vars

\* The response of the probe had no Content-Length header.
C15_Witness ==
    /\ pc = "Aborted"
    /\ log = <<"NoContentLength">>
    /\ valid_url

\* The number of regular files that exist.
FileCount(files) ==
    LET RECURSIVE Sum(_)
        Sum(D) == IF D = {} THEN 0
                  ELSE LET d == CHOOSE x \in D : TRUE IN files[d] + Sum(D \ {d})
    IN  Sum(DOMAIN files)

\* What the step of item i that ends its body read, its disk write or its
\* download does.
C16_ItemStep(i) ==
    /\ tasks[i].st = "body" /\ tasks'[i].st \in {"wantBytes", "save"} =>
          /\ tasks'[i].st = "wantBytes" <=>
                process_memory + tasks'[i].len < max_memory_mb * MB
          /\ tasks'[i].placement = IF tasks'[i].st = "wantBytes" THEN "Memory" ELSE "Disk"
          /\ fsFiles' = fsFiles
    /\ tasks[i].st # "save" /\ tasks'[i] # tasks[i] => FileCount(fsFiles') <= FileCount(fsFiles)
    /\ tasks[i].st = "save" /\ tasks'[i] # tasks[i] =>
          /\ tasks[i].placement = "Disk"
          /\ \/ tasks'[i].st = "wantBytes" /\ FileCount(fsFiles') = FileCount(fsFiles) + 1
             \/ tasks'[i].st = "wantFail" /\ fsFiles' = fsFiles
    /\ tasks[i].placement = "Memory" /\ tasks'[i].st = "done" =>
          /\ tasks'[i].ret = "Ok"
          /\ stats'.total_bytes = stats.total_bytes + tasks[i].len
          /\ stats'.failed_downloads = stats.failed_downloads
    /\ tasks[i].placement = "Disk" /\ tasks'[i].st = "done" =>
          IF tasks[i].st = "csFail"
          THEN /\ tasks'[i].ret = "Err"
               /\ stats'.failed_downloads = stats.failed_downloads + 1
               /\ stats'.total_bytes = stats.total_bytes
          ELSE /\ tasks'[i].ret = "Ok"
               /\ stats'.total_bytes = stats.total_bytes + tasks[i].len
               /\ stats'.failed_downloads = stats.failed_downloads

\* A memory-resident item is never on a failure path; a disk item is on one
\* only after its write.
C16_FailureOnlyFromWrite ==
    \A i \in Items :
        /\ tasks[i].placement = "Memory" => tasks[i].st \in {"wantBytes", "csBytes"}
        /\ tasks[i].placement = "Disk" =>
              tasks[i].st \in {"save", "wantBytes", "csBytes", "wantFail", "csFail"}

\* C16: after a successful body read the item is memory-resident iff process
\* usage + content length is strictly below the current budget (equality goes
\* to disk); a memory-resident item adds its bytes and creates no file; any
\* other item attempts the disk write, and ends as a failure (failed_downloads
\* + 1, no bytes) exactly when the write fails, otherwise adds its bytes.
C16_PlacementRule ==
    /\ [][\A i \in Items : C16_ItemStep(i)]_vars
    /\ []C16_FailureOnlyFromWrite

\* An item whose body exactly fills the configured budget went to disk, and
\* its write failed.
C16_Witness ==
    \E i \in Items :
        /\ max_memory_mb = MaxBudgetMB
        /\ process_memory + tasks[i].len = max_memory_mb * MB
        /\ tasks[i].placement = "Disk"
        /\ tasks[i].st = "wantFail"

\* The greater of two numbers of seconds.
MaxSeconds(a, b) == IF a >= b THEN a ELSE b

\* The report of the tick that ends at the second "now" (the value that the
\* step stores in last_end_time), with the differences taken as numbers.
C17_ReportStep ==
    pc = "Cleanup" /\ pc' = "WaitTick" =>
        LET now == last_end_time'
            elapsed == IF last_end_time >= 0
                       THEN now - last_end_time
                       ELSE now - batch_start_time
        IN  /\ last_end_time >= 0 <=> ticks > 0
            /\ printed'.elapsed_time = elapsed
            /\ printed'.avg_speed = [num |-> actual_batch_size,
                                     den |-> MaxSeconds(elapsed, 1)]

\* C17 as stated: every tick reports now - previous end when a previous tick
\* has completed and now - this tick's start on the first tick (nothing is
\* stored in last_end_time exactly until the first tick completes), stores
\* now as the previous end, and reports a speed of batch size /
\* max(elapsed, 1), whatever the number of successful items.
C17_ElapsedAndSpeed == [][C17_ReportStep]_vars

\* C18 as stated: when the probe reports a size of 0 bytes, the batch size
\* computed by start() is the requested batch size, whatever the available
\* memory, 0 included.
C18_ZeroSizeFallsBack ==
    pc = "Admission" /\ file_size = 0 => actual_batch_size = batch_size

\* C19: with positive available memory and item size, the admission check,
\* made with the batch size already computed, passes iff the available memory
\* exceeds requested size x item size; so whenever the batch size came out
\* below the requested size the check has failed and the budget is 0.
C19_CheckAgainstRequested ==
    pc = "Build" /\ available_memory > 0 /\ file_size > 0 =>
        /\ hist.feasible = "yes" <=> available_memory > batch_size * file_size
        /\ hist.feasible = "no" <=> max_memory_mb = 0
        /\ actual_batch_size < batch_size =>
              hist.feasible = "no" /\ max_memory_mb = 0

\* Two items were requested, the plan is one item (1 MB available, items of
\* 2 MB), and the check has collapsed the budget.
C19_Witness ==
    /\ pc = "Build"
    /\ batch_size = 2
    /\ actual_batch_size = 1
    /\ available_memory = MB
    /\ file_size = 2 * MB
    /\ max_memory_mb = 0

\* Where start() and handle_exit need the lock or the batch to go on, and
\* where they need neither: the select!, and the end of the process.
C20_Busy == {"RecordStart", "Join", "Fold", "FoldWrite", "Cleanup",
             "Exit", "FinalCleanup", "Banner", "ProcessExit"}
C20_AtRest == {"WaitTick", "Sleeping", "Terminated"}

\* The steps that end a critical section of the stats lock.
Release(o) ==
    IF o \in Items THEN RecordFailure(o) \/ RecordBytes(o) ELSE FoldWrite

\* The lock is granted only when it is free, its holder's next step is the
\* write that releases it, and an item that waits for the lock goes on only
\* by getting it.
C20_LockStep ==
    /\ lock' # lock /\ lock' # NoOwner => lock = NoOwner
    /\ lock # NoOwner /\ lock' # lock => lock' = NoOwner
    /\ \A i \in Items :
          /\ lock = i /\ tasks'[i] # tasks[i] =>
                tasks'[i].st = "done" /\ lock' = NoOwner
          /\ tasks[i].st \in {"wantFail", "wantBytes"} /\ tasks'[i] # tasks[i] =>
                lock' = i /\ tasks'[i].st \in {"csFail", "csBytes"}

\* The lock is held only between the read and the write of a counter, never
\* by a task that waits for the network, the disk or the lock, and its holder
\* can always go on.
C20_HeldOnlyToWrite ==
    /\ \A i \in Items :
          /\ lock = i => tasks[i].st \in {"csFail", "csBytes"}
          /\ tasks[i].st \in {"send", "body", "save", "wantFail", "wantBytes"} => lock # i
    /\ lock = SchedOwner => pc = "FoldWrite"
    /\ pc \in {"RecordStart", "Fold", "Exit", "Banner"} => lock # SchedOwner
    /\ lock # NoOwner => ENABLED Release(lock)
    /\ \A i \in Items : tasks[i].st \in {"wantFail", "wantBytes"} => pc = "Join"
    /\ pc \in C20_AtRest => \A i \in Items : tasks[i].st = "idle"

\* C20: the stats lock causes no deadlock and no stuck batch: nobody locks
\* while holding the lock, the lock is not held across a network or disk
\* await, and from every point where start() or handle_exit needs the lock
\* or the batch they reach the next select! or the end of the process: the
\* join of every tick and the Finalize sequence complete, which they do only
\* when every waiting item of the tick, start() after the join and
\* handle_exit for the summary and the banner have been granted the lock.
C20_NoDeadlock ==
    /\ [][C20_LockStep]_vars
    /\ []C20_HeldOnlyToWrite
    /\ (pc \in C20_Busy) ~> (pc \in C20_AtRest)

\* One item holds the lock for its bytes while the other item waits for the
\* lock to record its failure.
C20_Witness ==
    \E i, j \in Items :
        /\ lock = i
        /\ tasks[i].st = "csBytes"
        /\ tasks[j].st = "wantFail"

====
